---- MODULE Spec2Model ----
\* A model of splitter.py, the compound splitter: the recursive candidate
\* enumerator (splits), the cleaning pipeline (clean_...), the ranker (rank and
\* the rank_... scores), the top-level split and the evaluation harness
\* (evaluate).
\*
\* A Python str is a sequence of characters; a character is a one-element
\* token ("h", "a", ...).  A split is a sequence of such strings.
EXTENDS Integers, Sequences, FiniteSets, TLC

\* ------------------------------------------------------------------ bounds

\* An input word is the concatenation of at most MaxParts tokens of Tokens.
MaxParts == 2

\* A gold file has at most MaxGoldLines lines.
MaxGoldLines == 3

\* ------------------------------------------------------------------ strings

\* Unicode code points of the characters used (str comparison is by code point).
Code ==
    ("(" :> 40) @@ (")" :> 41) @@ ("+" :> 43) @@ ("H" :> 72) @@ ("K" :> 75) @@
    ("a" :> 97) @@ ("b" :> 98) @@ ("d" :> 100) @@ ("e" :> 101) @@ ("h" :> 104) @@ ("i" :> 105) @@
    ("k" :> 107) @@ ("m" :> 109) @@ ("n" :> 110) @@ ("o" :> 111) @@ ("r" :> 114) @@
    ("s" :> 115) @@ ("t" :> 116) @@ ("u" :> 117) @@ ("v" :> 118) @@ ("|" :> 124) @@
    ("iacute" :> 237) @@ ("oacute" :> 243) @@ ("odacute" :> 337)

\* tuple(f): the elements of f as a tuple, each one computed once.
tuple(f) == f \o <<>>

\* str.lower(), character by character.
lower(s) ==
    tuple([i \in 1..Len(s) |-> CASE s[i] = "H" -> "h" [] s[i] = "K" -> "k" [] OTHER -> s[i]])

\* s.startswith(p)
startswith(s, p) == Len(p) <= Len(s) /\ SubSeq(s, 1, Len(p)) = p

\* s[:n]
Take(s, n) == IF Len(s) <= n THEN s ELSE SubSeq(s, 1, n)

\* ''.join(split)
RECURSIVE join(_)
join(split) == IF split = <<>> THEN <<>> ELSE Head(split) \o join(Tail(split))

\* The first index at which two sequences differ, 0 when one is a prefix of the other.
FirstDiff(a, b) ==
    LET m == IF Len(a) < Len(b) THEN Len(a) ELSE Len(b)
        D == {i \in 1..m : a[i] # b[i]}
    IN  IF D = {} THEN 0 ELSE CHOOSE i \in D : \A j \in D : i <= j

\* str < str
StrLess(a, b) ==
    LET d == FirstDiff(a, b)
    IN  IF d = 0 THEN Len(a) < Len(b) ELSE Code[a[d]] < Code[b[d]]

\* tuple of str < tuple of str
SplitLess(a, b) ==
    LET d == FirstDiff(a, b)
    IN  IF d = 0 THEN Len(a) < Len(b) ELSE StrLess(a[d], b[d])

\* ------------------------------------------------------------------ the words used

w_haus == <<"h", "a", "u", "s">>
w_Haus == <<"H", "a", "u", "s">>
w_krank == <<"k", "r", "a", "n", "k">>
w_kranken == <<"k", "r", "a", "n", "k", "e", "n">>
w_kranke == <<"k", "r", "a", "n", "k", "e">>
w_krankenhaus == w_kranken \o w_haus
w_heit == <<"h", "e", "i", "t">>
w_vor == <<"v", "o", "r">>
w_der == <<"d", "e", "r">>
w_en == <<"e", "n">>
w_s == <<"s">>

\* ------------------------------------------------------------------ state

VARIABLES
    \* the Splitter's configuration, fixed by __init__
    words,              \* self.words: word -> count
    beginnings,         \* self.beginnings: 6-character beginning -> count
    suffixes,           \* self.suffixes
    prefixes,           \* self.prefixes
    binding_morphemes,  \* self.binding_morphemes
    rankings,           \* self.rankings
    rankings_given,     \* whether --ranking was supplied
    cleanings,          \* self.cleanings
    force_split,        \* self.force_split
    vec,                \* self.vec: the similarity oracle, or None
    pep479,             \* the interpreter turns a StopIteration inside a generator into RuntimeError (Python >= 3.7)
    \* the main loop / one call of split
    status,             \* "idle", "read", "returned", "raised"
    word,               \* the line read
    raw,                \* list(self.splits(word))
    stages,             \* the output of each cleaning stage, in pipeline order
    clean,              \* {*self.clean(splits)}
    ranked,             \* self.rank(clean)
    best,               \* the split returned
    \* evaluate
    gold_file,          \* the lines of the gold file
    pos,                \* the number of lines the file iterator has handed out
    epc,                \* where evaluate is
    judgements,
    error_analysis,
    metrics

cfgvars == <<words, beginnings, suffixes, prefixes, binding_morphemes, rankings,
             rankings_given, cleanings, force_split, vec, pep479>>
callvars == <<status, word, raw, stages, clean, ranked, best>>
evalvars == <<gold_file, pos, epc, judgements, error_analysis, metrics>>
vars == <<cfgvars, callvars, evalvars>>

\* An optional value: None, or Some(x).
None == {}
Some(x) == {x}
The(o) == CHOOSE x \in o : TRUE

\* ------------------------------------------------------------------ construction

\* The files under lex/ of the language read at construction.
LexiconFile ==
    << <<w_Haus, 200>>, <<w_kranken, 50>>, <<w_krank, 30>>, <<w_der, 900>>,
       <<w_heit, 5>>, <<w_vor \o w_haus, 1>>, <<w_haus, 3>> >>
StopwordsFile == {w_heit, w_der}
SuffixesFile == {w_heit, w_en}
PrefixesFile == {w_vor}

\* The similarity oracle of lex/<lang>.vectors.pkl: similarities in hundredths,
\* keyed by a pair of 6-character beginnings; a missing key is a KeyError.
VectorsFile ==
    (<<w_kranke, w_haus>> :> 40) @@ (<<w_krank, w_haus>> :> 70) @@
    (<<w_krank, w_heit>> :> 0 - 10)

\* docopt_switch(args, switch, default)
docopt_switch(on, off, default) == IF on THEN TRUE ELSE IF off THEN FALSE ELSE default

\* The binding morphemes set_language assigns ({"NotImplementedError"} stands for
\* the exception it raises for any other language).
set_language(language) ==
    CASE language = "de" ->
            {<<"s">>, <<"e">>, <<"e", "n">>, <<"n", "e", "n">>, <<"e", "n", "s">>,
             <<"e", "s">>, <<"n", "s">>, <<"e", "r">>, <<"n">>}
      [] language = "sv" -> {<<"s">>}
      [] language = "hu" ->
            {<<"oacute">>, <<"odacute">>, <<"b", "a">>, <<"iacute", "t", "odacute">>,
             <<"e", "s">>, <<"s">>, <<"i">>, <<"a">>}
      [] OTHER -> {"NotImplementedError"}

\* self.negative_morphemes, which set_language always leaves empty.
negative_morphemes == <<>>

\* counter[key] += n
Add(counter, key, n) ==
    IF key \in DOMAIN counter THEN [counter EXCEPT ![key] = @ + n]
    ELSE counter @@ (key :> n)

\* del counter[key] for the keys of S present
Without(counter, S) == [k \in (DOMAIN counter) \ S |-> counter[k]]

\* The loop of read_lexicon over the lines from index i (1-based) on.
RECURSIVE read_lines(_, _, _, _)
read_lines(i, limit, min_freq, acc) ==
    IF i > Len(LexiconFile) \/ (limit # None /\ i - 1 >= The(limit)) THEN acc
    ELSE LET w == LexiconFile[i][1]
             count == LexiconFile[i][2]
         IN  IF Len(w) < 4 \/ count < min_freq
             THEN read_lines(i + 1, limit, min_freq, acc)
             ELSE read_lines(i + 1, limit, min_freq,
                     [words |-> Add(acc.words, lower(w), count),
                      beginnings |-> Add(acc.beginnings, Take(lower(w), 6), count)])

\* read_lexicon: the lexicon, the beginnings, the suffixes and the prefixes.
read_lexicon(limit, min_freq, use_stopwords) ==
    LET r == read_lines(1, limit, min_freq, [words |-> <<>>, beginnings |-> <<>>])
    IN  [words |-> IF use_stopwords THEN Without(r.words, StopwordsFile) ELSE r.words,
         beginnings |-> r.beginnings,
         suffixes |-> {x \in SuffixesFile : Len(x) > 2},
         prefixes |-> PrefixesFile]

\* The default of self.rankings when --ranking is not given.
DefaultRankings == <<"semantic_similarity", "shortest">>

\* The default of self.cleanings when --cleaning is not given.
DefaultCleanings == <<"general", "last_parts", "prefix", "fragments", "suffix">>

\* The arguments the model constructs Splitters from.
Langs == {"de", "sv"}
Limits == {Some(2), Some(125000)}
MinFreqs == {2}
RankingArgs ==
    {None, Some(<<"most_known", "shortest">>),
     Some(<<"most_known", "semantic_similarity", "shortest">>), Some(<<"shortest">>),
     Some(<<"no_suffixes", "beginning_frequency", "avg_frequency", "longest">>)}
CleaningArgs ==
    {None, Some(<<>>),
     Some(<<"suffix", "fragments", "", "prefix", "last_parts", "general">>)}

\* self.rankings for the value of args['--ranking']
rankings_of(ranking) == IF ranking # None THEN The(ranking) ELSE DefaultRankings

\* 'semantic_similarity' in self.rankings
uses_similarity(rk) == \E i \in 1..Len(rk) : rk[i] = "semantic_similarity"

\* Splitter.__init__
Construct(language, fs_on, fs_off, sw_on, sw_off, min_freq, limit, ranking, cleaning, py37) ==
    LET lex == read_lexicon(limit, min_freq, docopt_switch(sw_on, sw_off, TRUE))
        rk == rankings_of(ranking)
    IN  /\ force_split = docopt_switch(fs_on, fs_off, FALSE)
        /\ binding_morphemes = set_language(language)
        /\ words = lex.words
        /\ beginnings = lex.beginnings
        /\ suffixes = lex.suffixes
        /\ prefixes = lex.prefixes
        /\ rankings = rk
        /\ rankings_given = (ranking # None)
        /\ cleanings = IF cleaning # None THEN SelectSeq(The(cleaning), LAMBDA x : x # "")
                       ELSE DefaultCleanings
        /\ vec = IF uses_similarity(rk)
                 THEN Some(VectorsFile) ELSE None
        /\ pep479 = py37

\* ------------------------------------------------------------------ the segmenter

\* not_a_binding_morpheme(part)
not_a_binding_morpheme(part) == part \notin binding_morphemes

\* left_slices with the right slice begun one character late.
left_slices_skip(w, minlen) ==
    [k \in 1..(Len(w) + 1 - minlen) |->
        <<SubSeq(w, 1, k + minlen - 1), SubSeq(w, k + minlen + 1, Len(w))>>]

\* left_slices with range(minlen, len(word)): the whole word is never a left slice.
left_slices_short(w, minlen) ==
    [k \in 1..(Len(w) - minlen) |->
        <<SubSeq(w, 1, k + minlen - 1), SubSeq(w, k + minlen, Len(w))>>]

\* left_slices(word, minlen=minlen): the (left, right) pairs, in order.
left_slices(w, minlen) ==
    [k \in 1..(Len(w) + 1 - minlen) |->
        <<SubSeq(w, 1, k + minlen - 1), SubSeq(w, k + minlen, Len(w))>>]

\* splits(word): the splits the generator yields, in the order it yields them.
\* splits_from(w, k) is what the iterations of its loop yield from the k-th
\* left slice of the lowercased word on.
RECURSIVE splits(_), splits_from(_, _)
splits_from(w, k) ==
    LET slices == left_slices(w, 1)
    IN  IF k > Len(slices) THEN <<>>
        ELSE LET left == slices[k][1]
                 right == slices[k][2]
                 sub == splits(right)
                 extended == tuple([j \in 1..Len(sub) |-> <<left>> \o sub[j]])
                 here ==
                    IF left \in binding_morphemes \/ left \in DOMAIN words
                    THEN IF right # <<>> THEN extended ELSE << <<left>> >>
                    ELSE IF negative_morphemes # <<>>
                         THEN \* only the first negative morpheme is consulted
                              IF (left \o negative_morphemes[1]) \in DOMAIN words
                              THEN extended ELSE <<>>
                         ELSE IF right # <<>> THEN <<>> ELSE << <<left>> >>
             IN  here \o splits_from(w, k + 1)
splits(w) == splits_from(lower(w), 1)

\* ------------------------------------------------------------------ the cleaner

\* The last part put in the place of the part before it, not added to it.
MergeLast_overwrite(split) ==
    LET n == Len(split)
    IN  SubSeq(split, 1, n - 2) \o <<split[n]>>

\* The last two parts of a split merged into one.
MergeLast(split) ==
    LET n == Len(split)
    IN  SubSeq(split, 1, n - 2) \o <<split[n - 1] \o split[n]>>

\* The while loop of clean_general over one split, from index i (1-based) on.
RECURSIVE general_scan(_, _, _)
general_scan(split, i, cleaned) ==
    IF i > Len(split) THEN cleaned
    ELSE IF split[i] \in DOMAIN words
         THEN general_scan(split, i + 1, Append(cleaned, split[i]))
    ELSE IF i < Len(split) /\ (split[i] \o split[i + 1]) \in DOMAIN words
         THEN general_scan(split, i + 2, Append(cleaned, split[i] \o split[i + 1]))
    ELSE IF i = 1 /\ Len(split) > 1 /\ split[i] \in binding_morphemes
         THEN general_scan(split, i + 2, Append(cleaned, split[i] \o split[i + 1]))
    ELSE general_scan(split, i + 1, Append(cleaned, split[i]))

\* clean_general
clean_general(ss) == tuple([j \in 1..Len(ss) |-> general_scan(ss[j], 1, <<>>)])

\* The while loop of clean_last_parts over one split.
RECURSIVE last_parts_loop(_)
last_parts_loop(split) ==
    IF Len(split[Len(split)]) < 4 /\ Len(split) >= 2
    THEN last_parts_loop(MergeLast(split)) ELSE split

\* clean_last_parts
clean_last_parts(ss) == tuple([j \in 1..Len(ss) |-> last_parts_loop(ss[j])])

\* The while loop of clean_suffix over one split.
RECURSIVE suffix_loop(_)
suffix_loop(split) ==
    LET last == split[Len(split)]
    IN  IF /\ \E suf \in suffixes : startswith(last, suf) /\ Len(last) - 2 <= Len(suf)
           /\ Len(split) >= 2
        THEN suffix_loop(MergeLast(split)) ELSE split

\* clean_suffix
clean_suffix(ss) == tuple([j \in 1..Len(ss) |-> suffix_loop(ss[j])])

\* clean_prefix
clean_prefix(ss) ==
    SelectSeq(ss, LAMBDA split : ~(\E i \in 1..Len(split) : split[i] \in prefixes))

\* clean_fragments with len(part) < 2: a two-character fragment passes.
clean_fragments_shorter(ss) ==
    SelectSeq(ss, LAMBDA split :
        ~(\E i \in 1..Len(split) : Len(split[i]) < 2 /\ split[i] \notin binding_morphemes))

\* clean_fragments
clean_fragments(ss) ==
    SelectSeq(ss, LAMBDA split :
        ~(\E i \in 1..Len(split) : Len(split[i]) < 3 /\ split[i] \notin binding_morphemes))

\* getattr(self, 'clean_' + method)
clean_method(method, ss) ==
    CASE method = "general" -> clean_general(ss)
      [] method = "last_parts" -> clean_last_parts(ss)
      [] method = "suffix" -> clean_suffix(ss)
      [] method = "prefix" -> clean_prefix(ss)
      [] method = "fragments" -> clean_fragments(ss)

\* wrap_functions: the argument after each of the first n functions, in order
\* (the wrapper returns the last one, the argument itself when there is no function).
RECURSIVE wrap_functions(_, _)
wrap_functions(ss, n) ==
    IF n = 0 THEN <<>>
    ELSE LET before == wrap_functions(ss, n - 1)
             arg == IF n = 1 THEN ss ELSE before[n - 1]
         IN  Append(before, clean_method(cleanings[n], arg))

\* self.clean(splits)
clean_pipeline(ss) ==
    IF Len(cleanings) = 0 THEN ss ELSE wrap_functions(ss, Len(cleanings))[Len(cleanings)]

Range(f) == {f[i] : i \in DOMAIN f}

\* ------------------------------------------------------------------ the ranker

\* A score is the fraction n/d (d > 0); an int n is n/1.  A score method that
\* raises gives the name of its exception instead.
Frac(n, d) == [n |-> n, d |-> d, err |-> ""]
Raise(e) == [n |-> 0, d |-> 1, err |-> e]
IsScore(x) == x.err = ""
ScoreLess(a, b) == a.n * b.d < b.n * a.d
ScoreEq(a, b) == a.n * b.d = b.n * a.d

\* [x for x in split if x not in self.binding_morphemes]
nonbinding(split) == SelectSeq(split, not_a_binding_morpheme)

RECURSIVE Sum(_)
Sum(f) == IF f = <<>> THEN 0 ELSE Head(f) + Sum(Tail(f))

\* counter[key] of a Counter: 0 for a missing key
Count(counter, key) == IF key \in DOMAIN counter THEN counter[key] ELSE 0

\* rank_avg_frequency: reduce(add, ...) of no element is a TypeError
rank_avg_frequency(split) ==
    LET parts == nonbinding(split)
    IN  IF parts = <<>> THEN Raise("TypeError")
        ELSE Frac(Sum([i \in 1..Len(parts) |-> Count(words, parts[i])]), Len(parts))

\* rank_beginning_frequency
rank_beginning_frequency(split) ==
    LET parts == nonbinding(split)
    IN  IF parts = <<>> THEN Raise("TypeError")
        ELSE Frac(Sum([i \in 1..Len(parts) |-> Count(beginnings, Take(parts[i], 6))]),
                  Len(parts))

\* rank_longest
rank_longest(split) == Frac(Len(split), 1)

\* rank_no_suffixes
rank_no_suffixes(split) ==
    IF \E i \in 1..Len(split) : \E suf \in suffixes : startswith(split[i], suf)
    THEN Frac(0, 1) ELSE Frac(1, 1)

\* rank_shortest
rank_shortest(split) == Frac(0 - Len(split), 1)

\* vecsim(left, right), a KeyError of the oracle already turned into 0
vecsim(left, right) ==
    IF vec # None
    THEN LET key == <<Take(left, 6), Take(right, 6)>>
         IN  IF key \in DOMAIN The(vec) THEN The(vec)[key] ELSE 0
    ELSE 0

\* rank_semantic_similarity, in hundredths.  pairwise() of an empty list ends
\* in next(j) raising StopIteration inside the generator: a RuntimeError under
\* PEP 479, the silent end of the generator before it.
rank_semantic_similarity(split) ==
    LET parts == nonbinding(split)
        sims == IF Len(parts) < 2 THEN <<0>>
                ELSE <<0>> \o [i \in 1..(Len(parts) - 1) |-> vecsim(parts[i], parts[i + 1])]
    IN  IF parts = <<>> /\ pep479 THEN Raise("RuntimeError")
        ELSE Frac(Sum(sims), Len(sims))

\* rank_most_known
rank_most_known(split) ==
    LET parts == nonbinding(split)
        known == {i \in 1..Len(parts) :
                    \/ parts[i] \in DOMAIN words
                    \/ \E k \in 1..Len(negative_morphemes) :
                          (parts[i] \o negative_morphemes[k]) \in DOMAIN words}
    IN  IF Len(parts) = 0 THEN Frac(0, 1)
        ELSE Frac(Cardinality(known), Len(parts))

\* getattr(self, 'rank_' + method)(split)
rank_method(method, split) ==
    CASE method = "semantic_similarity" -> rank_semantic_similarity(split)
      [] method = "avg_frequency" -> rank_avg_frequency(split)
      [] method = "beginning_frequency" -> rank_beginning_frequency(split)
      [] method = "most_known" -> rank_most_known(split)
      [] method = "longest" -> rank_longest(split)
      [] method = "shortest" -> rank_shortest(split)
      [] method = "no_suffixes" -> rank_no_suffixes(split)

\* An entry of the ranked list: the scores in the order of self.rankings, then the split.
Entry(split) ==
    [scores |-> tuple([i \in 1..Len(rankings) |-> rank_method(rankings[i], split)]),
     split |-> split]

\* EntryLess on the scores alone: entries with equal scores compare equal.
EntryLess_scores(x, y) ==
    LET D == {i \in 1..Len(x.scores) : ~ScoreEq(x.scores[i], y.scores[i])}
    IN  IF D = {} THEN FALSE
        ELSE LET d == CHOOSE i \in D : \A j \in D : i <= j
             IN  ScoreLess(x.scores[d], y.scores[d])

\* tuple < tuple on two entries: the first unequal element decides.
EntryLess(x, y) ==
    LET D == {i \in 1..Len(x.scores) : ~ScoreEq(x.scores[i], y.scores[i])}
    IN  IF D = {} THEN SplitLess(x.split, y.split)
        ELSE LET d == CHOOSE i \in D : \A j \in D : i <= j
             IN  ScoreLess(x.scores[d], y.scores[d])

\* list.sort() without reverse=True: ascending.
RECURSIVE sort_forward(_)
sort_forward(list) ==
    IF list = <<>> THEN <<>>
    ELSE LET n == Len(list)
             x == list[n]
             sorted == sort_forward(SubSeq(list, 1, n - 1))
             P == {i \in 1..Len(sorted) : EntryLess(x, sorted[i])}
             k == IF P = {} THEN Len(sorted) + 1 ELSE CHOOSE i \in P : \A j \in P : i <= j
         IN  SubSeq(sorted, 1, k - 1) \o <<x>> \o SubSeq(sorted, k, Len(sorted))

\* list.sort(reverse=True): descending, elements that compare equal keeping their order.
RECURSIVE sort_reverse(_)
sort_reverse(list) ==
    IF list = <<>> THEN <<>>
    ELSE LET n == Len(list)
             x == list[n]
             sorted == sort_reverse(SubSeq(list, 1, n - 1))
             P == {i \in 1..Len(sorted) : EntryLess(sorted[i], x)}
             k == IF P = {} THEN Len(sorted) + 1 ELSE CHOOSE i \in P : \A j \in P : i <= j
         IN  SubSeq(sorted, 1, k - 1) \o <<x>> \o SubSeq(sorted, k, Len(sorted))

\* rank(clean), given the entries in the order in which the loop over the set
\* clean appends them: the ranked list, or raised when a score method raises.
rank(entries) ==
    IF \E i \in 1..Len(entries) : \E j \in 1..Len(rankings) : ~IsScore(entries[i].scores[j])
    THEN [raised |-> TRUE, list |-> <<>>]
    ELSE LET sorted == sort_reverse(entries)
         IN  [raised |-> FALSE,
              list |-> IF force_split
                       THEN SelectSeq(sorted, LAMBDA e : Len(e.split) > 1)
                       ELSE sorted]

\* best_of with the fallback the bare word, not the tuple of it.
best_of_bare(w, rk) == IF rk # <<>> THEN rk[1].split ELSE lower(w)

\* The split that split(word) returns from the ranked list: rank[0][-1], or
\* (word,) of the lowercased word when the list is empty.
best_of(w, rk) == IF rk # <<>> THEN rk[1].split ELSE <<lower(w)>>

\* evalify(split)
evalify(split) ==
    LET RECURSIVE render(_)
        render(i) ==
            IF i > Len(split) THEN <<>>
            ELSE <<IF split[i] \in binding_morphemes THEN "|" ELSE "+">> \o split[i]
                 \o render(i + 1)
    IN  Tail(render(1))

\* ------------------------------------------------------------------ iteration order of a set

\* The elements of a set of splits in ascending order.
RECURSIVE Ascending(_)
Ascending(S) ==
    IF S = {} THEN <<>>
    ELSE LET m == CHOOSE x \in S : \A y \in S \ {x} : SplitLess(x, y)
         IN  <<m>> \o Ascending(S \ {m})

\* The orders in which the model lets Python iterate over a set (the order
\* follows the hashes of the elements, which differ from process to process),
\* given its elements in one order: that order, the order rotated by half its
\* length, and both backwards (so every two elements come in both relative orders).
IterationOrders(a) ==
    LET n == Len(a)
        rot(k) == tuple([i \in 1..n |-> a[((i + k - 1) % n) + 1]])
        rev(q) == tuple([i \in 1..n |-> q[n + 1 - i]])
    IN  IF n = 0 THEN {<<>>}
        ELSE {rot(0), rot(n \div 2), rev(rot(0)), rev(rot(n \div 2))}

\* ------------------------------------------------------------------ splitting words

\* The tokens input words are made of.
Tokens == {w_kranken, w_en, w_Haus, w_s, w_heit, w_vor}

\* The concatenations of at most n tokens.
RECURSIVE Concats(_)
Concats(n) ==
    IF n = 0 THEN {<<>>}
    ELSE LET shorter == Concats(n - 1)
         IN  shorter \cup {x \o t : x \in shorter, t \in Tokens}

\* The words split: the main loop stops at an empty line and a field of a gold
\* line is never empty, so the empty word is no input.
Inputs == Concats(MaxParts) \ {<<>>}

NoCall ==
    /\ status = "idle"
    /\ word = <<>>
    /\ raw = <<>>
    /\ stages = <<>>
    /\ clean = {}
    /\ ranked = <<>>
    /\ best = <<>>

NoEval ==
    /\ gold_file = <<>>
    /\ pos = 0
    /\ epc = "off"
    /\ judgements = <<>>
    /\ error_analysis = <<>>
    /\ metrics = <<>>

Init ==
    /\ \E language \in Langs, limit \in Limits, min_freq \in MinFreqs,
          ranking \in RankingArgs, cleaning \in CleaningArgs,
          fs_on \in BOOLEAN, fs_off \in BOOLEAN, sw_on \in BOOLEAN, sw_off \in BOOLEAN,
          py37 \in BOOLEAN :
            \* the interpreter's version shows only in rank_semantic_similarity
            /\ (py37 \/ uses_similarity(rankings_of(ranking)))
            /\ Construct(language, fs_on, fs_off, sw_on, sw_off, min_freq, limit,
                      ranking, cleaning, py37)
    /\ NoCall
    /\ NoEval

\* The caller takes the word to split.  No call changes the Splitter (every
\* action leaves cfgvars unchanged), so a call for a later word starts from the
\* state that the first call starts from: a behaviour follows one word.
Read(w) ==
    /\ status = "idle"
    /\ status' = "read"
    /\ word' = w
    /\ raw' = <<>>
    /\ stages' = <<>>
    /\ clean' = {}
    /\ ranked' = <<>>
    /\ best' = <<>>
    /\ UNCHANGED <<cfgvars, evalvars>>

\* split(word): the whole call, the cleaned set iterated in some order.  It is
\* called for the word read, and a caller other than evaluate may call it again
\* for the same word.
Split ==
    /\ status = "read" \/ (status = "returned" /\ epc = "off")
    /\ \E ss \in {splits(lower(word))} :
       \E st \in {wrap_functions(ss, Len(cleanings))} :
       \E cl \in {Range(IF st = <<>> THEN ss ELSE st[Len(st)])} :
       \E asc \in {Ascending(cl)} :
       \E scored \in {tuple([i \in 1..Len(asc) |-> Entry(asc[i])])} :
       \E entries \in IterationOrders(scored) :
       \E rk \in {rank(entries)} :
            /\ raw' = ss
            /\ stages' = st
            /\ clean' = cl
            /\ IF rk.raised
               THEN /\ status' = "raised"
                    /\ ranked' = <<>>
                    /\ best' = <<>>
               ELSE /\ status' = "returned"
                    /\ ranked' = rk.list
                    /\ best' = best_of(word, rk.list)
    /\ UNCHANGED <<word, cfgvars, evalvars>>

Next ==
    \/ \E w \in Inputs : Read(w)
    \/ Split

Spec == Init /\ [][Next]_vars


\* ------------------------------------------------------------------ evaluate

\* c in s
Has(s, c) == \E i \in 1..Len(s) : s[i] = c

\* s.count(c)
CountOf(s, c) == Cardinality({i \in 1..Len(s) : s[i] = c})

\* s.replace(c, "")
Remove(s, c) == SelectSeq(s, LAMBDA x : x # c)

\* s.rsplit("+", 1)[0] + "+", for s with a "+" in it
UpToLastPlus(s) ==
    LET last == CHOOSE i \in 1..Len(s) : s[i] = "+" /\ \A j \in (i + 1)..Len(s) : s[j] # "+"
    IN  SubSeq(s, 1, last)

\* line.lower().strip().split()
fields_of(line) == tuple([i \in 1..Len(line) |-> lower(line[i])])

\* Counter(): the judgements and the error analysis before the first line
NoJudgements == [tp |-> 0, tn |-> 0, fp |-> 0, fn |-> 0, is |-> 0]
NoErrors == [under |-> 0, over |-> 0, wrong |-> 0]

\* sum(judgements.values())
Judged(j) == j.tp + j.tn + j.fp + j.fn + j.is

\* The body of the loop of evaluate after the call of split: the gold string and
\* the rendered result normalised, then the error analysis and the judgement
\* ("RuntimeError" for the contradiction the code raises on).
judge(gold0, result0) ==
    LET both == Has(gold0, "+") /\ Has(result0, "+")
        gold1 == IF both THEN UpToLastPlus(gold0) ELSE gold0
        result1 == IF both THEN UpToLastPlus(result0) ELSE result0
        gold == Remove(Remove(Remove(gold1, "|"), "("), ")")
        result == Remove(result1, "|")
    IN  [error |-> IF CountOf(result, "+") < CountOf(gold, "+") THEN "under"
                   ELSE IF CountOf(result, "+") > CountOf(gold, "+") THEN "over"
                   ELSE "",
         judgement |-> IF ~Has(gold, "+")
                       THEN IF gold = result THEN "tn"
                            ELSE IF Has(result, "+") THEN "fp"
                            ELSE "RuntimeError"
                       ELSE IF gold = result THEN "tp"
                            ELSE IF ~Has(result, "+") THEN "fn"
                            ELSE "is"]

\* counter[key] += 1 on a record of counts ("" counts nothing)
Incr(counter, key) ==
    [k \in DOMAIN counter |-> IF k = key THEN counter[k] + 1 ELSE counter[k]]

\* The statistics evaluate computes after the loop, in the order it computes
\* them; error names the first that raises.  A fraction stands for a float.
statistics(j) ==
    LET positives == j.tp + j.fp + j.is
        precision == IF positives = 0 THEN Frac(1, 1) ELSE Frac(j.tp, positives)
        relevant == j.tp + j.fp + j.fn
        recall == Frac(j.tp, relevant)
        accuracy == Frac(j.tp + j.tn, Judged(j))
        \* precision + recall and precision * recall over the common denominator
        sum == precision.n * recall.d + recall.n * precision.d
        quasi_f == Frac(2 * precision.n * recall.n, sum)
        attempted == j.tp + j.is + j.fn
        coverage == Frac(j.tp + j.is, attempted)
    IN  IF relevant = 0 \/ Judged(j) = 0 \/ sum = 0 \/ attempted = 0
        THEN [error |-> "ZeroDivisionError", precision |-> precision,
              recall |-> Frac(0, 1), accuracy |-> Frac(0, 1), quasi_f |-> Frac(0, 1),
              coverage |-> Frac(0, 1)]
        ELSE [error |-> "", precision |-> precision, recall |-> recall,
              accuracy |-> accuracy, quasi_f |-> quasi_f, coverage |-> coverage]

\* The lines gold files are made of: the fields of each.
line_tn == <<w_Haus \o w_en, w_Haus \o <<"|", "(", "e", ")", "n">> >>
line_tp == <<w_krankenhaus, w_kranken \o <<"+">> \o w_haus>>
line_fp == <<w_krankenhaus, w_krankenhaus>>
line_fn == <<w_haus \o w_vor, w_haus \o <<"+">> \o w_vor>>
line_is == <<w_krankenhaus, w_krank \o <<"+">> \o w_en \o <<"+">> \o w_haus>>
line_differs == <<w_haus, w_heit>>
line_one_field == <<w_haus>>
line_binding == <<w_en, w_en>>
GoldLines ==
    {line_tn, line_tp, line_fp, line_fn, line_is, line_differs, line_one_field,
     line_binding}

\* The gold files: the sequences of at most n lines.
RECURSIVE GoldFiles(_)
GoldFiles(n) ==
    IF n = 0 THEN {<<>>}
    ELSE LET shorter == GoldFiles(n - 1)
         IN  shorter \cup {Append(f, l) : f \in {g \in shorter : Len(g) = n - 1}, l \in GoldLines}

\* The Splitters evaluate is run on.
EvalRankingArgs == {None, Some(<<"most_known", "shortest">>)}

\* evaluate(gold_file) is called on a constructed Splitter: the counters are
\* empty and the file is open.
InitEval ==
    /\ \E ranking \in EvalRankingArgs, fs_on \in BOOLEAN :
            Construct("de", fs_on, FALSE, FALSE, FALSE, 2, Some(125000), ranking, None, TRUE)
    /\ NoCall
    /\ gold_file \in GoldFiles(MaxGoldLines)
    /\ pos = 0
    /\ epc = "outer"
    /\ judgements = NoJudgements
    /\ error_analysis = NoErrors
    /\ metrics = <<>>

\* The outer "for line in f" takes a line; the inner loop over the same file follows.
EvalOuterLine ==
    /\ epc = "outer"
    /\ pos < Len(gold_file)
    /\ pos' = pos + 1
    /\ epc' = "inner"
    /\ UNCHANGED <<cfgvars, callvars, gold_file, judgements, error_analysis, metrics>>

\* The outer loop finds the file exhausted: the statistics follow.
EvalOuterEnd ==
    /\ epc = "outer"
    /\ pos >= Len(gold_file)
    /\ epc' = "metrics"
    /\ UNCHANGED <<cfgvars, callvars, gold_file, pos, judgements, error_analysis, metrics>>

\* The inner "for line in f" takes a line and unpacks its two fields (a
\* ValueError for any other number of fields); split is called on the first.
EvalInnerLine ==
    /\ epc = "inner"
    /\ pos < Len(gold_file)
    /\ pos' = pos + 1
    /\ LET fields == fields_of(gold_file[pos + 1])
       IN  IF Len(fields) # 2
           THEN /\ epc' = "ValueError"
                /\ UNCHANGED callvars
           ELSE /\ epc' = "split"
                /\ status' = "read"
                /\ word' = fields[1]
                /\ raw' = <<>>
                /\ stages' = <<>>
                /\ clean' = {}
                /\ ranked' = <<>>
                /\ best' = <<>>
    /\ UNCHANGED <<cfgvars, gold_file, judgements, error_analysis, metrics>>

\* The inner loop finds the file exhausted: back to the outer loop.
EvalInnerEnd ==
    /\ epc = "inner"
    /\ pos >= Len(gold_file)
    /\ epc' = "outer"
    /\ UNCHANGED <<cfgvars, callvars, gold_file, pos, judgements, error_analysis, metrics>>

\* split returned: the rest of the loop body, which judges the line.
EvalJudge ==
    /\ epc = "split"
    /\ status = "returned"
    /\ LET j == judge(fields_of(gold_file[pos])[2], evalify(best))
       IN  /\ error_analysis' =
                Incr(Incr(error_analysis, j.error),
                     IF j.judgement = "is" THEN "wrong" ELSE "")
           /\ IF j.judgement = "RuntimeError"
              THEN /\ epc' = "RuntimeError"
                   /\ UNCHANGED judgements
              ELSE /\ epc' = "inner"
                   /\ judgements' = Incr(judgements, j.judgement)
    /\ UNCHANGED <<cfgvars, callvars, gold_file, pos, metrics>>

\* split raised: evaluate does not catch it.
EvalSplitRaised ==
    /\ epc = "split"
    /\ status = "raised"
    /\ epc' = "SplitError"
    /\ UNCHANGED <<cfgvars, callvars, gold_file, pos, judgements, error_analysis, metrics>>

\* The statistics after the loop: evaluate returns them, or raises ZeroDivisionError.
EvalMetrics ==
    /\ epc = "metrics"
    /\ \E m \in {statistics(judgements)} :
          /\ metrics' = m
          /\ epc' = IF m.error = "" THEN "returned" ELSE m.error
    /\ UNCHANGED <<cfgvars, callvars, gold_file, pos, judgements, error_analysis>>

NextEval ==
    \/ EvalOuterLine
    \/ EvalOuterEnd
    \/ EvalInnerLine
    \/ EvalInnerEnd
    \/ Split
    \/ EvalJudge
    \/ EvalSplitRaised
    \/ EvalMetrics

SpecEval == InitEval /\ [][NextEval]_vars

\* ------------------------------------------------------------------ properties of splitting

\* split has been called for the word, and has returned or raised.
Called == status \in {"returned", "raised"}

\* The positions at which a split cuts its word.
Boundaries(split) ==
    {Len(join(SubSeq(split, 1, i))) : i \in 1..(Len(split) - 1)}

NonEmptyParts(split) == split # <<>> /\ \A i \in 1..Len(split) : split[i] # <<>>

\* A binding morpheme or a lexicon word.
Known(part) == part \in binding_morphemes \/ part \in DOMAIN words

\* C1: every split that splits(w) yields has non-empty parts that concatenate
\* to the lowercased word, and so does the split that split(w) returns, from
\* the ranked list or from the fallback.
ConcatenationInvariant ==
    /\ Called =>
          \A i \in 1..Len(raw) : NonEmptyParts(raw[i]) /\ join(raw[i]) = lower(word)
    /\ status = "returned" => NonEmptyParts(best) /\ join(best) = lower(word)

\* A capitalised word whose split of two or more parts came from the ranked list.
ConcatenationWitness ==
    /\ status = "returned"
    /\ word # lower(word)
    /\ Len(raw) > 1
    /\ ranked # <<>>
    /\ Len(best) > 1

\* One cleaning stage, from its input list to its output list.
MergeOnly(in, out) ==
    /\ NonEmptyParts(out)
    /\ join(out) = join(in)
    /\ Boundaries(out) \subseteq Boundaries(in)

Transforms == {"general", "last_parts", "suffix"}
Filters == {"prefix", "fragments"}

StageMergeOnly(method, in, out) ==
    IF method \in Transforms
    THEN /\ Len(out) = Len(in)
         /\ \A j \in 1..Len(in) : MergeOnly(in[j], out[j])
    ELSE /\ method \in Filters
         /\ out = SelectSeq(in, LAMBDA split : split \in Range(out))

\* The input of the i-th stage of the pipeline in the call made.
StageInput(i) == IF i = 1 THEN raw ELSE stages[i - 1]

\* C2: cleaning only merges: each stage, on the input it gets in the pipeline
\* and on the raw splits, emits splits with the concatenation of the input and
\* a subset of its boundaries; a transform emits one split for each input
\* split, a filter emits the input split unchanged or nothing.
CleaningMergeOnly ==
    Called =>
        /\ Len(stages) = Len(cleanings)
        /\ \A i \in 1..Len(stages) : StageMergeOnly(cleanings[i], StageInput(i), stages[i])
        /\ \A method \in Transforms \cup Filters :
              StageMergeOnly(method, raw, clean_method(method, raw))

\* A call in which a transform merged parts and a filter rejected a split.
CleaningWitness ==
    /\ Called
    /\ \E i \in 1..Len(stages) :
          /\ cleanings[i] \in Transforms
          /\ \E j \in 1..Len(stages[i]) : Len(stages[i][j]) < Len(StageInput(i)[j])
    /\ \E i \in 1..Len(stages) :
          /\ cleanings[i] \in Filters
          /\ Len(stages[i]) < Len(StageInput(i))
          /\ stages[i] # <<>>

\* No contiguous substring of the lowercased word is a lexicon word or a binding morpheme.
NoMatch(w) ==
    \A i \in 1..Len(w) : \A j \in i..Len(w) : ~Known(SubSeq(lower(w), i, j))

\* C3: for a word none of whose substrings is a lexicon word or a binding
\* morpheme, split returns the one-part split of the lowercased word, under
\* every cleaning and ranking configuration and both settings of force-split.
FallbackProperty ==
    (Called /\ NoMatch(word)) => (status = "returned" /\ best = <<lower(word)>>)

\* The only candidate of such a word was rejected by a filter, so nothing was ranked.
FallbackWitness ==
    /\ status = "returned"
    /\ NoMatch(word)
    /\ Len(raw) = 1
    /\ clean = {}
    /\ ranked = <<>>
    /\ best = <<lower(word)>>

\* The positions of w at which a known part, begun at an earlier position, ends.
CutCandidates(w) ==
    {c \in 1..(Len(w) - 1) : \E b \in 0..(c - 1) : Known(SubSeq(w, b + 1, c))}

\* The partition of w that cuts it at the positions C.
PartsOf(w, C) ==
    LET ends == C \cup {Len(w)}
        nth(k) == CHOOSE c \in ends : Cardinality({d \in ends : d < c}) = k - 1
    IN  [k \in 1..Cardinality(ends) |->
            SubSeq(w, (IF k = 1 THEN 0 ELSE nth(k - 1)) + 1, nth(k))]

\* The partitions of w into non-empty parts that cut it only where a known part
\* ends (a partition all of whose parts but the last are known is one of them).
Partitions(w) == {PartsOf(w, C) : C \in SUBSET CutCandidates(w)}

\* C4, as stated: the splits yielded are the partitions of the lowercased word
\* all of whose parts are binding morphemes or lexicon words, and the one-part
\* fallback; no split of two or more parts has an unknown part.
SegmenterAllPartsKnown ==
    Called =>
        Range(raw) =
            {p \in Partitions(lower(word)) : \A i \in 1..Len(p) : Known(p[i])}
            \cup {<<lower(word)>>}

\* C4, amended: the splits yielded are the partitions of the lowercased word
\* all of whose parts but the last are binding morphemes or lexicon words; the
\* last part is any remainder, known or not.
SegmenterExactness ==
    Called =>
        Range(raw) =
            {p \in Partitions(lower(word)) : \A i \in 1..(Len(p) - 1) : Known(p[i])}

\* A split of two or more parts whose last part is unknown was yielded, next to
\* one all of whose parts are known.
SegmenterWitness ==
    /\ Called
    /\ \E i \in 1..Len(raw) : Len(raw[i]) > 1 /\ ~Known(raw[i][Len(raw[i])])
    /\ \E i \in 1..Len(raw) : Len(raw[i]) > 1 /\ \A k \in 1..Len(raw[i]) : Known(raw[i][k])

\* tuple < tuple on two score tuples.
ScoresLess(a, b) ==
    LET D == {i \in 1..Len(a) : ~ScoreEq(a[i], b[i])}
    IN  D # {} /\ ScoreLess(a[CHOOSE i \in D : \A j \in D : i <= j],
                            b[CHOOSE i \in D : \A j \in D : i <= j])

\* The candidates rank keeps: under force-split those of two or more parts.
Kept == IF force_split THEN {c \in clean : Len(c) > 1} ELSE clean

\* The ranked list is in descending order of the score tuples.
Descending ==
    \A i \in 1..Len(ranked) : \A j \in (i + 1)..Len(ranked) :
        ~ScoresLess(ranked[i].scores, ranked[j].scores)

\* The split returned has a greatest score tuple among the candidates C.
BestAmong(C) ==
    C # {} => /\ best \in C
              /\ \A c \in C : ~ScoresLess(Entry(best).scores, Entry(c).scores)

\* Under (most_known, shortest) a candidate of C is not returned when another
\* has the same most_known score and fewer parts.
FewerPartsWin(C) ==
    rankings = <<"most_known", "shortest">> =>
        \A c \in C : \A d \in C :
            (ScoreEq(rank_most_known(c), rank_most_known(d)) /\ Len(c) < Len(d))
                => best # d

MethodRaises ==
    \E c \in clean : \E j \in 1..Len(rankings) : ~IsScore(rank_method(rankings[j], c))

RankingDeterminism ==
    [][(Called /\ word' = word) => (status' = status /\ best' = best)]_vars

\* A call returned the first of two candidates that tie on every configured score.
DeterminismWitness ==
    /\ status = "returned"
    /\ Len(ranked) >= 2
    /\ best = ranked[1].split
    /\ ranked[1].scores = ranked[2].scores

\* evaluate is over: it returned or raised.
EvalOver == epc \notin {"off", "outer", "inner", "split", "metrics"}

\* Every line of the gold file was judged a true negative, or is the same line
\* as one that was.
AllTrueNegatives ==
    /\ Len(gold_file) >= 2
    /\ judgements = [NoJudgements EXCEPT !.tn = Len(gold_file) - 1]
    /\ gold_file[1] \in {gold_file[i] : i \in 2..Len(gold_file)}

\* C7: on a gold file every entry of which is a non-compound predicted as a
\* non-compound, evaluate returns, with precision exactly 1, and raises nothing.
PrecisionDegeneracy ==
    (EvalOver /\ AllTrueNegatives) =>
        (epc = "returned" /\ ScoreEq(metrics.precision, Frac(1, 1)))

\* C8: once evaluate has read a gold file of n lines of two fields each with no
\* error raised while reading it, the five judgement counters sum to n.
EveryPairJudged ==
    (/\ epc \in {"metrics", "returned", "ZeroDivisionError"}
     /\ \A i \in 1..Len(gold_file) : Len(gold_file[i]) = 2)
        => Judged(judgements) = Len(gold_file)

\* C9: without --ranking the rankings are most_known, semantic_similarity,
\* shortest, in that order, so a candidate with a higher most_known score is
\* ranked above every candidate with a lower one.
DefaultRankingDocumented ==
    (status = "returned" /\ ~rankings_given) =>
        /\ rankings = <<"most_known", "semantic_similarity", "shortest">>
        /\ \A i \in 1..Len(ranked) : \A j \in (i + 1)..Len(ranked) :
              ~ScoreLess(rank_most_known(ranked[i].split), rank_most_known(ranked[j].split))

\* What rank keeps and split returns under either setting of force-split, when
\* split returns.
ForceSplitFilter ==
    status = "returned" =>
        /\ force_split =>
              /\ \A i \in 1..Len(ranked) : Len(ranked[i].split) > 1
              /\ (\E c \in clean : Len(c) > 1) => Len(best) > 1
              /\ ~(\E c \in clean : Len(c) > 1) => best = <<lower(word)>>
        /\ ~force_split =>
              /\ Len(ranked) = Cardinality(clean)
              /\ {ranked[i].split : i \in 1..Len(ranked)} = clean

\* C10: with force-split the ranked list has no one-part split, split returns a
\* split of two or more parts whenever such a candidate survived cleaning, and
\* the one-part split of the lowercased word only when none did; without
\* force-split the ranked list has every cleaned candidate.
ForceSplit ==
    /\ ForceSplitFilter
    /\ (Called /\ force_split /\ \E c \in clean : Len(c) > 1) =>
            (status = "returned" /\ Len(best) > 1)

\* The split has a part shorter than 3 characters that is not a binding morpheme.
HasFragment(split) ==
    \E i \in 1..Len(split) : Len(split[i]) < 3 /\ split[i] \notin binding_morphemes

\* The fragments stage, given in, emitted out: no split of out has a fragment,
\* and the splits of in that have none are all in out, unchanged and in order.
FragmentsStage(in, out) ==
    /\ \A j \in 1..Len(out) : ~HasFragment(out[j])
    /\ out = SelectSeq(in, LAMBDA split : ~HasFragment(split))

\* C11: the fragments stage, on the input it gets in the pipeline and on the raw
\* splits, emits no split with a part shorter than 3 characters that is not a
\* binding morpheme, and emits every other split unchanged; under the default
\* stage order no split of the cleaned set has such a part.
FragmentsFilter ==
    Called =>
        /\ \A i \in 1..Len(stages) :
              cleanings[i] = "fragments" => FragmentsStage(StageInput(i), stages[i])
        /\ FragmentsStage(raw, clean_method("fragments", raw))
        /\ cleanings = DefaultCleanings => \A c \in clean : ~HasFragment(c)

\* In a pipeline the fragments stage was given a split with a fragment and a
\* split with none: it rejected the first and passed the second.
FragmentsWitness ==
    /\ Called
    /\ \E i \in 1..Len(stages) :
          /\ cleanings[i] = "fragments"
          /\ \E j \in 1..Len(StageInput(i)) :
                HasFragment(StageInput(i)[j]) /\ StageInput(i)[j] \notin Range(stages[i])
          /\ \E j \in 1..Len(StageInput(i)) :
                ~HasFragment(StageInput(i)[j]) /\ StageInput(i)[j] \in Range(stages[i])

====
